---- MODULE Spec2Model ----
(***************************************************************************)
(* Fibonacci Bloom integrity verifier (full_verifier.py) as a state        *)
(* machine: one input document, verified by verify_envelope step by step.  *)
(*                                                                         *)
(* Representation.                                                         *)
(*  - A Python str is a sequence of symbols (one-character strings, or a   *)
(*    longer string standing for an indivisible run of characters).        *)
(*    String concatenation is \o, so f"{a}{b}{g}{R}" keeps the ambiguity   *)
(*    of concatenation ("0"+"0" = ""+"00").                                *)
(*  - SHA3-512 is idealised as collision free: the digest of the string x  *)
(*    is the bracketed string  h( x ) , which stands for 128 hex           *)
(*    characters.  Other 128-hex strings are the atoms in HexAtoms.        *)
(*  - A JSON value is a record [t, s, n]: t = "absent" (key missing),      *)
(*    "str" (content s) or "num" (value n, any non-string scalar).         *)
(*  - A float ratio x is the integer TRUE_PHI + trunc((x - phi)/1e-9):     *)
(*    0.0 is 0, phi is TRUE_PHI, one unit is the tolerance PHI_TOL.        *)
(*                                                                         *)
(* Spec continues each verify_envelope run with the rest of                *)
(* verify_with_arc (arc_integrity.py).  SpecSeed runs fingerprint_to_seed  *)
(* and blend_seeds alone, SpecTrajectory runs guardian_arc_trajectory      *)
(* (guardian_arc.py) alone; both compute in fixed point.  SpecDensity      *)
(* runs guardian_arc_density alone, in exact arithmetic.                   *)
(***************************************************************************)
EXTENDS Integers, Sequences, FiniteSets, TLC

MaxCoils == 4

\* ------------------------------------------------------------------ values
Absent == [t |-> "absent", s |-> <<>>, n |-> 0]
Str(x) == [t |-> "str", s |-> x, n |-> 0]
Num(k) == [t |-> "num", s |-> <<>>, n |-> k]

Min(a, b) == IF a < b THEN a ELSE b

\* ------------------------------------------------------------------ constants
GENESIS_TIMESTAMP == <<"2025-12-02T23:59:59Z">>
RESONANCE_HZ == 963
TRUE_PHI == 1618033988
PHI_TOL == 1
HexAtoms == {"Fa", "Fb"}

\* str(x) as done by an f-string field
Fmt(v) == IF v.t = "str" THEN v.s ELSE <<ToString(v.n)>>

\* ------------------------------------------------------------------ hashing
sha3_512_hex(data) == <<"h(">> \o data \o <<")">>

Depth(s, j) ==
    Cardinality({m \in 1..j : s[m] = "h("}) - Cardinality({m \in 1..j : s[m] = ")"})

\* s stands for exactly 128 hex characters: an atom or one whole digest
IsHex128(s) ==
    \/ Len(s) = 1 /\ s[1] \in HexAtoms
    \/ /\ Len(s) >= 2
       /\ s[1] = "h("
       /\ s[Len(s)] = ")"
       /\ Depth(s, Len(s)) = 0
       /\ \A j \in 1..(Len(s) - 1) : Depth(s, j) > 0

is_valid_sha3_hex(v) == v.t = "str" /\ IsHex128(v.s)

\* the two parents concatenated in the other order
fibonacci_fingerprint_swapped(genesis, parent_a, parent_b) ==
    sha3_512_hex(parent_b \o parent_a \o genesis \o <<ToString(RESONANCE_HZ)>>)

fibonacci_fingerprint(genesis, parent_a, parent_b) ==
    sha3_512_hex(parent_a \o parent_b \o genesis \o <<ToString(RESONANCE_HZ)>>)

\* s[:32] of a string; a digest stands for 128 characters, so its first
\* quarter is modelled by its first two symbols
Prefix32(s) == SubSeq(s, 1, Min(2, Len(s)))

\* ------------------------------------------------------------------ canonical JSON
RECURSIVE Join(_)
Join(parts) ==
    IF parts = <<>> THEN <<>>
    ELSE IF Len(parts) = 1 THEN parts[1]
    ELSE parts[1] \o <<",">> \o Join(Tail(parts))

JsonVal(v) == IF v.t = "str" THEN <<"\"">> \o v.s \o <<"\"">> ELSE <<ToString(v.n)>>

Member(key, v) == IF v.t = "absent" THEN <<>> ELSE << <<key, ":">> \o JsonVal(v) >>

JsonParents(p) ==
    IF p.has
    THEN << <<"parents", ":", "[">> \o JsonVal(Str(p.a)) \o <<",">> \o JsonVal(Str(p.b)) \o <<"]">> >>
    ELSE <<>>

JsonCoil(gen) ==
    IF gen.obj
    THEN <<"{">> \o Join(Member("coil", gen.coil) \o Member("fingerprint", gen.fingerprint)
                         \o JsonParents(gen.parents)) \o <<"}">>
    ELSE <<"7">>

JsonGenerations(g) ==
    IF g.has
    THEN << <<"generations", ":", "[">>
            \o Join([j \in 1..Len(g.list) |-> JsonCoil(g.list[j])]) \o <<"]">> >>
    ELSE <<>>

\* json.dumps(core, separators=(",", ":"), sort_keys=True)
JsonCore(core) ==
    <<"{">> \o Join(Member("eternal_fingerprint", core.eternal_fingerprint)
                    \o JsonGenerations(core.generations)
                    \o Member("genesis", core.genesis)
                    \o Member("phi_ratio_observed", core.phi_ratio_observed)
                    \o Member("resonance_hz", core.resonance_hz)) \o <<"}">>

sha3_json(core) == sha3_512_hex(JsonCore(core))

\* ------------------------------------------------------------------ producer
Display(parent) == IF parent = <<"0">> THEN <<"0">> ELSE Prefix32(parent) \o <<"...">>

RECURSIVE ChainFingerprints(_, _)
ChainFingerprints(n, genesis) ==
    IF n = 0 THEN <<>>
    ELSE LET prev == ChainFingerprints(n - 1, genesis)
             i == n - 1
             parent_a == IF i <= 1 THEN <<"0">> ELSE prev[i - 1]
             parent_b == IF i = 0 THEN <<"0">> ELSE prev[i]
             seed == parent_a \o parent_b \o genesis \o <<ToString(RESONANCE_HZ)>>
         IN  Append(prev, sha3_512_hex(seed))

GenerateChain(n, genesis) ==
    LET fps == ChainFingerprints(n, genesis)
    IN  [j \in 1..n |->
            LET i == j - 1
                parent_a == IF i <= 1 THEN <<"0">> ELSE fps[i - 1]
                parent_b == IF i = 0 THEN <<"0">> ELSE fps[i]
            IN  [obj |-> TRUE, coil |-> Num(i), fingerprint |-> Str(fps[j]),
                 parents |-> [has |-> TRUE, a |-> Display(parent_a), b |-> Display(parent_b)]]]

Seal(core) == [core EXCEPT !.eternal_fingerprint = Str(sha3_json(core))]

generate_sample_envelope(n_coils, genesis, phi_ratio) ==
    LET bloom_core == [kind |-> "obj",
                       genesis |-> Str(genesis),
                       resonance_hz |-> Num(RESONANCE_HZ),
                       generations |-> [has |-> TRUE, list |-> GenerateChain(n_coils, genesis)],
                       phi_ratio_observed |-> Num(phi_ratio),
                       eternal_fingerprint |-> Absent]
        sealed == Seal(bloom_core)
    IN  [obj |-> TRUE,
         serpent_bloom_core |-> sealed,
         external_fingerprints |->
             [has |-> TRUE,
              list |-> << [obj |-> TRUE, source |-> Str(<<"example_generator">>),
                           algorithm |-> Str(<<"SHA3-512">>)] >>]]

\* ------------------------------------------------------------------ input documents
GenesisChoices == {Str(<<"U">>), Absent}
ResonanceChoices == {Num(432), Absent}
RatioChoices == {Absent, Str(<<"x">>), Num(TRUE_PHI + 1), Num(TRUE_PHI + 1000)}
DigestChoices == {Absent, Num(5), Str(<<"Fa">>)}
FingerprintChoices ==
    {Str(<<"Fa">>), Str(fibonacci_fingerprint(<<"T">>, <<"0">>, <<"0">>)),
     Str(<<>>), Str(<<"0", "0">>), Num(5), Absent}
ParentsChoices == {[has |-> FALSE, a |-> <<>>, b |-> <<>>], [has |-> TRUE, a |-> <<"0">>, b |-> <<"Fa">>]}
ExternalChoices ==
    {[has |-> FALSE, list |-> <<>>],
     [has |-> TRUE, list |-> <<>>],
     [has |-> TRUE, list |-> << [obj |-> FALSE, source |-> Absent, algorithm |-> Absent] >>]}

WithCore(d, core) == [d EXCEPT !.serpent_bloom_core = core]
WithCoil(d, k, gen) == WithCore(d, [d.serpent_bloom_core EXCEPT !.generations.list[k] = gen])

\* the documents that differ from d by one change of one field
CoilEdits(d) ==
    LET gens == d.serpent_bloom_core.generations.list
    IN  UNION {
          {WithCoil(d, k, [gens[k] EXCEPT !.fingerprint = v]) : v \in FingerprintChoices}
          \cup {WithCoil(d, k, [gens[k] EXCEPT !.coil = v]) : v \in {Absent, Num(k)}}
          \cup {WithCoil(d, k, [gens[k] EXCEPT !.parents = v]) : v \in ParentsChoices}
          \cup {WithCoil(d, k, [gens[k] EXCEPT !.obj = FALSE])}
          : k \in 1..Len(gens)}

CoreEdits(d) ==
    LET core == d.serpent_bloom_core
    IN       {WithCore(d, [core EXCEPT !.genesis = v]) : v \in GenesisChoices}
        \cup {WithCore(d, [core EXCEPT !.resonance_hz = v]) : v \in ResonanceChoices}
        \cup {WithCore(d, [core EXCEPT !.phi_ratio_observed = v]) : v \in RatioChoices}
        \cup {WithCore(d, [core EXCEPT !.eternal_fingerprint = v]) : v \in DigestChoices}
        \cup {WithCore(d, [core EXCEPT !.generations = [has |-> FALSE, list |-> <<>>]])}
        \cup {WithCore(d, [core EXCEPT !.kind = v]) : v \in {"absent", "num"}}
        \cup {WithCore(d, Seal([core EXCEPT !.eternal_fingerprint = Absent]))}

EnvelopeEdits(d) ==
         {[d EXCEPT !.external_fingerprints = v] : v \in ExternalChoices}
    \cup {[d EXCEPT !.obj = FALSE]}

Edits(d) == CoilEdits(d) \cup CoreEdits(d) \cup EnvelopeEdits(d)

Produced == {generate_sample_envelope(n, <<"T">>, TRUE_PHI) : n \in 0..MaxCoils}
Edited1 == UNION {Edits(d) : d \in Produced}
Edited2 == UNION {Edits(d) : d \in Edited1}
Documents == Produced \cup Edited1 \cup Edited2

\* ------------------------------------------------------------------ verify_eternal_fingerprint
\* data.get("serpent_bloom_core", {})
EmptyCore ==
    [kind |-> "obj", genesis |-> Absent, resonance_hz |-> Absent,
     generations |-> [has |-> FALSE, list |-> <<>>],
     phi_ratio_observed |-> Absent, eternal_fingerprint |-> Absent]

GetCore(d) == IF d.serpent_bloom_core.kind = "absent" THEN EmptyCore ELSE d.serpent_bloom_core

\* the digest left in the copy that is hashed
PopDigest_keep(core) == core

\* temp = dict(bloom_core); temp.pop("eternal_fingerprint", None)
PopDigest(core) == [core EXCEPT !.eternal_fingerprint = Absent]

verify_eternal_fingerprint(core) ==
    LET temp == PopDigest(core)
        stored == core.eternal_fingerprint
        recomputed == sha3_json(temp)
    IN  [ok |-> stored.t = "str" /\ stored.s = recomputed,
         stored |-> IF stored.t = "absent" THEN Str(<<>>) ELSE stored,
         recomputed |-> recomputed]

\* the pop applied to the caller's dictionary itself
CoreAfterDigestCheck_inPlace(core) == PopDigest(core)

\* The caller's bloom_core once verify_eternal_fingerprint has returned:
\* dict(bloom_core) is a shallow copy and the pop acts on the copy only.
CoreAfterDigestCheck(core) == core

\* ------------------------------------------------------------------ verify_coil_chain
Detail(coil, error) ==
    [coil |-> coil, error |-> error, expected_index |-> 0, actual_index |-> 0,
     expected_length |-> 0, actual_length |-> 0, expected |-> <<>>, actual |-> <<>>]

\* bloom_core.get("generations", [])
Generations(core) == IF core.generations.has THEN core.generations.list ELSE <<>>

\* the module constant used whatever the core holds
Genesis_constant(core) == GENESIS_TIMESTAMP

\* bloom_core.get("genesis", GENESIS_TIMESTAMP)
Genesis(core) == IF core.genesis.t = "absent" THEN GENESIS_TIMESTAMP ELSE Fmt(core.genesis)

\* the locals of verify_coil_chain before the loop
LoopInit(core) ==
    [i |-> 0, genesis |-> Genesis(core), bad_coils |-> <<>>, details |-> <<>>,
     fingerprints |-> <<>>, expected_fp |-> <<>>, raised |-> FALSE]

\* the position used as index whatever the entry holds
Idx_position(gen, i) == i

\* gen.get("coil", i)
Idx(gen, i) == IF gen.coil.t = "absent" THEN i ELSE gen.coil.n

\* gen.get("fingerprint", "")
StoredFp(gen) == IF gen.fingerprint.t = "absent" THEN Str(<<>>) ELSE gen.fingerprint

\* parents taken from the entry's own parents field when it has one
Parents_label(gen, i, fingerprints) ==
    IF gen.parents.has THEN << gen.parents.a, gen.parents.b >>
    ELSE IF i = 0 THEN << <<"0">>, <<"0">> >>
    ELSE IF i = 1 THEN << <<"0">>, fingerprints[1] >>
    ELSE << fingerprints[i - 1], fingerprints[i] >>

\* the grandparent dropped: ("0", fingerprint of coil i-1) at every i >= 1
Parents_noGrandparent(gen, i, fingerprints) ==
    IF i = 0 THEN << <<"0">>, <<"0">> >>
    ELSE << <<"0">>, fingerprints[i] >>

\* "Parents driven by position, not label": i is the 0-based position and
\* fingerprints holds the stored values of the positions before i; the entry
\* gen is in scope and is not read
Parents(gen, i, fingerprints) ==
    IF i = 0 THEN << <<"0">>, <<"0">> >>
    ELSE IF i = 1 THEN << <<"0">>, fingerprints[1] >>
    ELSE << fingerprints[i - 1], fingerprints[i] >>

\* one iteration of the loop over generations, on the entry gen at position L.i
CoilStep(L, gen) ==
    IF ~gen.obj
    THEN [L EXCEPT !.raised = TRUE]
    ELSE
    LET i == L.i
        idx == Idx(gen, i)
        stored_fp == StoredFp(gen)
        L1 == IF idx # i
              THEN [L EXCEPT !.bad_coils = Append(@, idx),
                             !.details = Append(@, [Detail(idx, "index_mismatch") EXCEPT
                                                      !.expected_index = i, !.actual_index = idx])]
              ELSE L
    IN  IF ~is_valid_sha3_hex(stored_fp)
        THEN IF stored_fp.t # "str"
             THEN [L1 EXCEPT !.bad_coils = Append(@, idx), !.raised = TRUE]
             ELSE [L1 EXCEPT !.bad_coils = Append(@, idx),
                             !.details = Append(@, [Detail(idx, "invalid_fingerprint_format") EXCEPT
                                                      !.expected_length = 128,
                                                      !.actual_length = Len(stored_fp.s)]),
                             !.fingerprints = Append(@, stored_fp.s),
                             !.i = i + 1]
        ELSE LET parent_a == Parents(gen, i, L.fingerprints)[1]
                 parent_b == Parents(gen, i, L.fingerprints)[2]
                 expected_fp == fibonacci_fingerprint(L.genesis, parent_a, parent_b)
                 L2 == IF stored_fp.s # expected_fp
                       THEN [L1 EXCEPT !.bad_coils = Append(@, idx),
                                       !.details = Append(@, [Detail(idx, "fingerprint_mismatch") EXCEPT
                                                                !.expected = Prefix32(expected_fp) \o <<"...">>,
                                                                !.actual = Prefix32(stored_fp.s) \o <<"...">>])]
                       ELSE L1
             IN  [L2 EXCEPT !.fingerprints = Append(@, stored_fp.s),
                            !.expected_fp = expected_fp,
                            !.i = i + 1]

ChainResult(L) ==
    [raised |-> L.raised, ok |-> Len(L.bad_coils) = 0, bad_coils |-> L.bad_coils, details |-> L.details]

RECURSIVE RunLoop(_, _)
RunLoop(L, generations) ==
    IF L.raised \/ L.i = Len(generations) THEN L
    ELSE RunLoop(CoilStep(L, generations[L.i + 1]), generations)

\* an empty chain reported as a failure
verify_coil_chain_emptyFails(core) ==
    IF Generations(core) = <<>>
    THEN [raised |-> FALSE, ok |-> FALSE, bad_coils |-> <<>>, details |-> <<>>]
    ELSE ChainResult(RunLoop(LoopInit(core), Generations(core)))

verify_coil_chain(core) ==
    IF Generations(core) = <<>>
    THEN [raised |-> FALSE, ok |-> TRUE, bad_coils |-> <<>>, details |-> <<>>]
    ELSE ChainResult(RunLoop(LoopInit(core), Generations(core)))

\* ------------------------------------------------------------------ verify_phi
Abs(x) == IF x < 0 THEN -x ELSE x

\* the tolerance itself accepted: delta <= PHI_TOL
verify_phi_inclusive(core) ==
    LET observed == IF core.phi_ratio_observed.t = "absent" THEN Num(0) ELSE core.phi_ratio_observed
        delta == Abs(observed.n - TRUE_PHI)
    IN  [raised |-> observed.t # "num", ok |-> observed.t = "num" /\ delta <= PHI_TOL,
         observed |-> observed.n, delta |-> delta]

\* a missing ratio defaulting to phi instead of 0.0
verify_phi_defaultPhi(core) ==
    LET observed == IF core.phi_ratio_observed.t = "absent" THEN Num(TRUE_PHI)
                    ELSE core.phi_ratio_observed
        delta == Abs(observed.n - TRUE_PHI)
    IN  [raised |-> observed.t # "num", ok |-> observed.t = "num" /\ delta < PHI_TOL,
         observed |-> observed.n, delta |-> delta]

verify_phi(core) ==
    LET observed == IF core.phi_ratio_observed.t = "absent" THEN Num(0) ELSE core.phi_ratio_observed
        delta == Abs(observed.n - TRUE_PHI)
    IN  [raised |-> observed.t # "num", ok |-> observed.t = "num" /\ delta < PHI_TOL,
         observed |-> observed.n, delta |-> delta]

\* ------------------------------------------------------------------ verify_external_fingerprints
\* a non-empty list reported as verified
verify_external_fingerprints_verified(d) ==
    LET externals == IF d.external_fingerprints.has THEN d.external_fingerprints.list ELSE <<>>
    IN  [raised |-> \E j \in 1..Len(externals) : ~externals[j].obj,
         count |-> Len(externals),
         sources |-> [j \in 1..Len(externals) |-> externals[j].source],
         algorithms |-> [j \in 1..Len(externals) |-> externals[j].algorithm],
         verified |-> IF Len(externals) = 0 THEN "null" ELSE "true"]

verify_external_fingerprints(d) ==
    LET externals == IF d.external_fingerprints.has THEN d.external_fingerprints.list ELSE <<>>
    IN  [raised |-> \E j \in 1..Len(externals) : ~externals[j].obj,
         count |-> Len(externals),
         sources |-> [j \in 1..Len(externals) |-> externals[j].source],
         algorithms |-> [j \in 1..Len(externals) |-> externals[j].algorithm],
         verified |-> "null"]

\* ------------------------------------------------------------------ verify_envelope
NoReport ==
    [verification_result |-> "",
     eternal_fingerprint |-> [ok |-> FALSE, stored |-> Absent, recomputed |-> <<>>],
     coil_chain |-> [ok |-> FALSE, coils_checked |-> 0, bad_coils |-> <<>>,
                     details |-> [none |-> TRUE, list |-> <<>>]],
     phi_ratio |-> [ok |-> FALSE, observed |-> 0, expected |-> 0, delta |-> 0, tolerance |-> 0],
     external_fingerprints |-> verify_external_fingerprints(
                                   [external_fingerprints |-> [has |-> FALSE, list |-> <<>>]]),
     verdict |-> ""]

\* the verdict without the ratio check
AllOk_noPhi(e, c, p) == e.ok /\ c.ok

AllOk(e, c, p) == e.ok /\ c.ok /\ p.ok

BuildReport(core, e, c, p, x) ==
    LET all_ok == AllOk(e, c, p)
    IN  [verification_result |-> IF all_ok THEN "PASS" ELSE "FAIL",
         eternal_fingerprint |->
             [ok |-> e.ok,
              stored |-> IF e.stored.s = <<>> THEN Absent
                         ELSE Str(Prefix32(e.stored.s) \o <<"...">>),
              recomputed |-> Prefix32(e.recomputed) \o <<"...">>],
         coil_chain |->
             [ok |-> c.ok, coils_checked |-> Len(Generations(core)), bad_coils |-> c.bad_coils,
              details |-> [none |-> c.details = <<>>, list |-> c.details]],
         phi_ratio |->
             [ok |-> p.ok, observed |-> p.observed, expected |-> TRUE_PHI,
              delta |-> p.delta, tolerance |-> PHI_TOL],
         external_fingerprints |-> x,
         verdict |-> IF all_ok
                     THEN "Envelope cryptographically consistent"
                     ELSE "Envelope has integrity issues"]

\* verify_envelope as one call: the report, or raised when an exception leaves it
verify_envelope(d) ==
    IF ~d.obj \/ GetCore(d).kind # "obj"
    THEN [raised |-> TRUE, report |-> NoReport]
    ELSE LET core == GetCore(d)
             e == verify_eternal_fingerprint(core)
             c == verify_coil_chain(core)
             p == verify_phi(core)
             x == verify_external_fingerprints(d)
         IN  IF c.raised \/ p.raised \/ x.raised \/ e.stored.t # "str"
             THEN [raised |-> TRUE, report |-> NoReport]
             ELSE [raised |-> FALSE, report |-> BuildReport(core, e, c, p, x)]

\* ------------------------------------------------------------------ arc_integrity: seeds
\* A seed is a float k / 2^53 with 0 <= k < 2^53, kept as two limbs:
\* k = hi * 2^LoBits + lo, hi below 2^HiBits and lo below 2^LoBits.
LoBits == 28
HiBits == 25
Seed(hi, lo) == [hi |-> hi, lo |-> lo]

\* 0.123456789, truncated to a multiple of 2^-53: 0x3f35ba6e72c6b / 2^53
DefaultSeed == Seed(4142522, 115813483)

HexLower == <<"0", "1", "2", "3", "4", "5", "6", "7", "8", "9", "a", "b", "c", "d", "e", "f">>
HexUpper == <<"0", "1", "2", "3", "4", "5", "6", "7", "8", "9", "A", "B", "C", "D", "E", "F">>

\* c in HEX_CHARS
IsHexChar(c) == \E v \in 1..16 : HexLower[v] = c \/ HexUpper[v] = c
HexValue(c) == (CHOOSE v \in 1..16 : HexLower[v] = c \/ HexUpper[v] = c) - 1

\* int(cs, 16) of at most seven hex characters
RECURSIVE HexInt(_)
HexInt(cs) ==
    IF cs = <<>> THEN 0
    ELSE 16 * HexInt(SubSeq(cs, 1, Len(cs) - 1)) + HexValue(cs[Len(cs)])

\* The characters of a string of symbols.  An atom Fa or Fb is 128 times the
\* character a or b; a digest h( x ) is 128 hex characters fixed by x, here
\* by the length of x.
Chars(s) ==
    IF Len(s) = 1 /\ s[1] \in HexAtoms
    THEN [j \in 1..128 |-> IF s[1] = "Fa" THEN "a" ELSE "b"]
    ELSE IF IsHex128(s)
    THEN [j \in 1..128 |-> HexLower[((Len(s) * j + j * j) % 16) + 1]]
    ELSE s

\* int(hex_segment, 16) of sixteen hex characters, as the limbs
\* a * 2^52 + b * 2^28 + c  (3 + 6 + 7 characters)
IntVal(hex_segment) ==
    [a |-> HexInt(SubSeq(hex_segment, 1, 3)),
     b |-> HexInt(SubSeq(hex_segment, 4, 9)),
     c |-> HexInt(SubSeq(hex_segment, 10, 16))]

\* the reduction taken modulo 2^54
Mod2p53_wide(int_val) == Seed((int_val.a % 4) * 2^(HiBits - 1) + int_val.b, int_val.c)

\* int_val % (2**53): bit 52 is the lowest bit of limb a
Mod2p53(int_val) == Seed((int_val.a % 2) * 2^(HiBits - 1) + int_val.b, int_val.c)

\* fingerprint is a JSON value whose content is a sequence of characters;
\* int() raises ValueError on a character that is no hex digit
fingerprint_to_seed(fingerprint) ==
    IF fingerprint.t = "absent" \/ fingerprint.s = <<>> \/ Len(fingerprint.s) < 16
    THEN [raised |-> FALSE, seed |-> DefaultSeed]
    ELSE LET hex_segment == SubSeq(fingerprint.s, 1, 16)
         IN  IF \E j \in 1..16 : ~IsHexChar(hex_segment[j])
             THEN [raised |-> TRUE, seed |-> DefaultSeed]
             ELSE [raised |-> FALSE, seed |-> Mod2p53(IntVal(hex_segment))]

RECURSIVE ExtractFrom_fill(_)
\* a default seed appended for every malformed fingerprint
ExtractFrom_fill(gens) ==
    IF gens = <<>> THEN <<>>
    ELSE LET fp == gens[1].fingerprint
         IN  (IF is_valid_sha3_hex(fp)
              THEN <<fingerprint_to_seed(Str(Chars(fp.s))).seed>>
              ELSE <<DefaultSeed>>)
             \o ExtractFrom_fill(Tail(gens))

RECURSIVE ExtractFrom(_)
\* the loop of extract_fingerprint_seeds over the entries still to visit
ExtractFrom(gens) ==
    IF gens = <<>> THEN <<>>
    ELSE LET fp == gens[1].fingerprint
         IN  (IF is_valid_sha3_hex(fp)
              THEN <<fingerprint_to_seed(Str(Chars(fp.s))).seed>>
              ELSE <<>>)
             \o ExtractFrom(Tail(gens))

extract_fingerprint_seeds_fill(core) == ExtractFrom_fill(Generations(core))

extract_fingerprint_seeds(core) == ExtractFrom(Generations(core))

\* ------------------------------------------------------------------ arc_integrity: blend
\* Weights are kept in units of 2^-WeightBits and the seeds entering the
\* blend in units of 2^-BlendBits (the leading bits of the numerator), each
\* float operation rounding to the nearest unit.
WeightBits == 10
BlendBits == 13

\* phi ** (-1) in millionths
PhiInverse == 618034
Million == 1000000

RECURSIVE SumSeq(_)
SumSeq(xs) == IF xs = <<>> THEN 0 ELSE xs[1] + SumSeq(Tail(xs))

\* phi ** (-i)
RECURSIVE PhiPower(_)
PhiPower(i) ==
    IF i = 0 THEN 2^WeightBits
    ELSE (PhiPower(i - 1) * PhiInverse + Million \div 2) \div Million

\* weights = [phi ** (-i) ...]; weights /= weights.sum()
Weights(n) ==
    LET raw == [i \in 1..n |-> PhiPower(i - 1)]
        total == SumSeq(raw)
    IN  [i \in 1..n |-> (2 * 2^WeightBits * raw[i] + total) \div (2 * total)]

Leading(seed) == seed.hi \div 2^(HiBits - BlendBits)

\* sum(w * s for w, s in zip(weights, seeds)), in units of 2^-(WeightBits + BlendBits)
WeightedSum(seeds) ==
    LET w == Weights(Len(seeds))
    IN  SumSeq([i \in 1..Len(seeds) |-> w[i] * Leading(seeds[i])])

FromBlend(x) == Seed(x * 2^(HiBits - BlendBits - WeightBits), 0)

\* the weighted sum returned without the reduction
blend_seeds_unreduced(seeds) ==
    IF seeds = <<>> THEN DefaultSeed
    ELSE IF Len(seeds) = 1 THEN seeds[1]
    ELSE FromBlend(WeightedSum(seeds))

blend_seeds(seeds) ==
    IF seeds = <<>> THEN DefaultSeed
    ELSE IF Len(seeds) = 1 THEN seeds[1]
    ELSE FromBlend(WeightedSum(seeds) % 2^(WeightBits + BlendBits))

\* ------------------------------------------------------------------ arc_integrity: verify_with_arc
BlendModes == {"composite", "first", "golden"}

\* the seed integrity_trajectory hands to guardian_arc_trajectory
integrity_trajectory_seed(core, blend_mode) ==
    LET seeds == extract_fingerprint_seeds(core)
    IN  IF blend_mode = "composite" THEN blend_seeds(seeds)
        ELSE IF blend_mode = "first" /\ seeds # <<>> THEN seeds[1]
        ELSE DefaultSeed

\* the "seed_used" entry of the report
seed_used(seeds, blend_mode) ==
    IF blend_mode = "composite" THEN blend_seeds(seeds)
    ELSE IF seeds # <<>> THEN seeds[1] ELSE DefaultSeed

\* defaults of verify_with_arc and integrity_trajectory
N_STEPS == 2000000
BURN_IN == 1000

\* len(traj) after  if burn_in > 0: traj = traj[burn_in:]
SlicedLen(n_steps, burn_in) ==
    IF burn_in > 0 THEN (IF burn_in < n_steps THEN n_steps - burn_in ELSE 0) ELSE n_steps

NoArcBlock ==
    [has |-> FALSE, trajectory_steps |-> 0, seeds_extracted |-> 0,
     blend_mode |-> "", seed_used |-> DefaultSeed]

\* the locals of verify_with_arc: the seeds it extracts, the seed handed to
\* the engine by integrity_trajectory, and the "guardian_arc" entry it adds
\* to the report (trajectory_bounds left out)
ArcIdle ==
    [seeds |-> <<>>, blend_mode |-> "", seed |-> DefaultSeed, guardian_arc |-> NoArcBlock]

\* one call of fingerprint_to_seed or of blend_seeds: its argument, the
\* position of the call (idle, call, returned, raised) and its return value
SeedIdle ==
    [op |-> "idle", fingerprint |-> Absent, seeds |-> <<>>, at |-> "idle", result |-> DefaultSeed]

\* ------------------------------------------------------------------ guardian_arc
\* The seed of the engine is kept in billionths, the driver s in millionths,
\* the points z and the centers in thousandths, lambda_phi in
\* ten-thousandths; every result is rounded to the nearest unit.
Milli == 1000
Nano == 1000000000
LambdaScale == 10000

\* phi, in millionths
arc_phi == 1618034

\* exp(+1/phi + 2 pi i phi): the rotation with the damping inverted
lambda_phi_expanding == [re |-> -13680, im |-> -12532]

\* exp(-1/phi + 2 pi i phi) = -0.39744 - 0.36409i, of modulus 0.53900
lambda_phi == [re |-> -3974, im |-> -3641]

R_CONSTELLATION == 3500

\* the core and the five ring centers R * exp(i (pi/2 + 2 pi k / 5))
CENTERS ==
    <<[re |-> 0, im |-> 0], [re |-> 0, im |-> 3500], [re |-> -3329, im |-> 1082],
      [re |-> -2057, im |-> -2832], [re |-> 2057, im |-> -2832], [re |-> 3329, im |-> 1082]>>

\* cumsum of the normalised WEIGHTS 0.30, 0.25, 0.15, 0.075, 0.075, 0.15
CUTS == <<300000, 550000, 700000, 775000, 850000, 1000000>>

\* np.searchsorted(cuts, s), side "left": the number of entries below s
searchsorted(cuts, s) == Cardinality({j \in 1..Len(cuts) : cuts[j] < s})

RoundDiv(x, d) == (2 * x + d) \div (2 * d)

\* s = float(seed) % 1.0: the remainder is rounded to the driver's unit, so
\* a seed just below a whole number gives 1.0 (as -1e-17 % 1.0 does)
DriverInit(seed) == RoundDiv(seed % Nano, Nano \div Million)

\* the driver advanced without the reduction
Advance_unreduced(s) == s + arc_phi

\* s = (s + phi) % 1.0; the sum is not negative and its remainder is below 1
Advance(s) == (s + arc_phi) % Million

\* lambda_phi * w
TimesLambda(w) ==
    [re |-> RoundDiv(lambda_phi.re * w.re - lambda_phi.im * w.im, LambdaScale),
     im |-> RoundDiv(lambda_phi.re * w.im + lambda_phi.im * w.re, LambdaScale)]

\* z = lambda_phi * (z - c) + c
Contract(z, c) ==
    LET w == TimesLambda([re |-> z.re - c.re, im |-> z.im - c.im])
    IN  [re |-> w.re + c.re, im |-> w.im + c.im]

\* the last burn_in points dropped instead of the first
Slice_tail(traj, burn_in) ==
    IF burn_in > 0 THEN SubSeq(traj, 1, Len(traj) - burn_in) ELSE traj

\* if burn_in > 0: traj = traj[burn_in:]
Slice(traj, burn_in) ==
    IF burn_in > 0 THEN SubSeq(traj, burn_in + 1, Len(traj)) ELSE traj

\* one call of guardian_arc_trajectory: arguments, position (idle, call,
\* loop, returned, raised), the locals s, k, z, i, the points recorded so
\* far and the returned array
EngineIdle ==
    [at |-> "idle", n_steps |-> 0, burn_in |-> 0, seed |-> 0,
     s |-> 0, k |-> 0, z |-> [re |-> 0, im |-> 0], i |-> 0, traj |-> <<>>, result |-> <<>>]

\* ------------------------------------------------------------------ guardian_arc_density
\* Points are in thousandths, as in the trajectory; the extent is kept in
\* twentieths of a thousandth, so that the margin 0.05 * dx is exact.
MarginInverse == 20

Least(vals) == CHOOSE v \in vals : \A w \in vals : v <= w
Greatest(vals) == CHOOSE v \in vals : \A w \in vals : w <= v

\* xmin, xmax = x.min(), x.max(); dx = xmax - xmin; xmin -= margin * dx; xmax += margin * dx
MarginRange(vals) ==
    LET dx == Greatest(vals) - Least(vals)
    IN  [min |-> MarginInverse * Least(vals) - dx, max |-> MarginInverse * Greatest(vals) + dx]

\* extent is None: the bounding box of the points widened by the margin
DataExtent(z) ==
    [x |-> MarginRange({z[j].re : j \in 1..Len(z)}),
     y |-> MarginRange({z[j].im : j \in 1..Len(z)})]

\* the outer edges numpy takes for a range: equal ends are moved apart by 0.5 each
OuterEdges(range) ==
    IF range.min = range.max
    THEN [min |-> range.min - (MarginInverse * Milli) \div 2,
          max |-> range.max + (MarginInverse * Milli) \div 2]
    ELSE range

\* the 1-based bin of the value v (thousandths) among bins equal bins over
\* range; 0 for a value outside it.  The last bin includes its right edge.
BinOf(v, range, bins) ==
    LET e == OuterEdges(range)
        w == MarginInverse * v
    IN  IF w < e.min \/ w > e.max THEN 0
        ELSE IF w = e.max THEN bins
        ELSE ((w - e.min) * bins) \div (e.max - e.min) + 1

\* np.histogram2d(x, y, bins, range): H[i][j] counts the points with x in
\* bin i and y in bin j
Histogram2d(z, bins, extent) ==
    [i \in 1..bins |-> [j \in 1..bins |->
        Cardinality({n \in 1..Len(z) : /\ BinOf(z[n].re, extent.x, bins) = i
                                       /\ BinOf(z[n].im, extent.y, bins) = j})]]

\* H returned as it is
Transposed_not(H) == H

\* H.T
Transposed(H) == [i \in 1..Len(H) |-> [j \in 1..Len(H) |-> H[j][i]]]

\* one call of guardian_arc_density without extent: arguments, position
\* (idle, call, histogram2d, returned), the extent and the returned grid
DensityIdle ==
    [at |-> "idle", z |-> <<>>, bins |-> 0,
     extent |-> [x |-> [min |-> 0, max |-> 0], y |-> [min |-> 0, max |-> 0]], grid |-> <<>>]

VARIABLES data, pc, bloom_core, ef, loop, chain, phi, external_report, report,
          arc, seedrun, engine, histogram
vars == <<data, pc, bloom_core, ef, loop, chain, phi, external_report, report,
          arc, seedrun, engine, histogram>>

\* the state of verify_with_arc, of the seed functions, of the trajectory
\* engine and of the density estimate
arcvars == <<arc, seedrun, engine, histogram>>

Init ==
    /\ data \in Documents
    /\ pc = "start"
    /\ bloom_core = EmptyCore
    /\ ef = [ok |-> FALSE, stored |-> Absent, recomputed |-> <<>>]
    /\ loop = LoopInit(EmptyCore)
    /\ chain = [raised |-> FALSE, ok |-> FALSE, bad_coils |-> <<>>, details |-> <<>>]
    /\ phi = [raised |-> FALSE, ok |-> FALSE, observed |-> 0, delta |-> 0]
    /\ external_report = NoReport.external_fingerprints
    /\ report = NoReport
    /\ arc = ArcIdle
    /\ seedrun = SeedIdle
    /\ engine = EngineIdle
    /\ histogram = DensityIdle

\* bloom_core = data.get("serpent_bloom_core", {})
EnterVerifyEnvelope ==
    /\ pc = "start"
    /\ IF data.obj
       THEN bloom_core' = GetCore(data) /\ pc' = "verify_eternal_fingerprint"
       ELSE pc' = "raised" /\ UNCHANGED bloom_core
    /\ UNCHANGED <<data, ef, loop, chain, phi, external_report, report>>
    /\ UNCHANGED arcvars

\* bloom_core is the very dictionary stored in data when the key is present,
\* and a fresh empty one otherwise
VerifyEternalFingerprint ==
    /\ pc = "verify_eternal_fingerprint"
    /\ IF bloom_core.kind = "obj"
       THEN /\ ef' = verify_eternal_fingerprint(bloom_core)
            /\ bloom_core' = CoreAfterDigestCheck(bloom_core)
            /\ data' = IF data.serpent_bloom_core.kind = "obj"
                       THEN [data EXCEPT !.serpent_bloom_core = bloom_core']
                       ELSE data
            /\ pc' = "verify_coil_chain"
       ELSE pc' = "raised" /\ UNCHANGED <<ef, bloom_core, data>>
    /\ UNCHANGED <<loop, chain, phi, external_report, report>>
    /\ UNCHANGED arcvars

EnterCoilChain ==
    /\ pc = "verify_coil_chain"
    /\ IF Generations(bloom_core) = <<>>
       THEN /\ chain' = verify_coil_chain(bloom_core)
            /\ pc' = "verify_phi"
            /\ UNCHANGED loop
       ELSE /\ loop' = LoopInit(bloom_core)
            /\ pc' = "coil_loop"
            /\ UNCHANGED chain
    /\ UNCHANGED <<data, bloom_core, ef, phi, external_report, report>>
    /\ UNCHANGED arcvars

CoilIteration ==
    /\ pc = "coil_loop"
    /\ loop.i < Len(Generations(bloom_core))
    /\ loop' = CoilStep(loop, Generations(bloom_core)[loop.i + 1])
    /\ pc' = IF loop'.raised THEN "raised" ELSE "coil_loop"
    /\ UNCHANGED <<data, bloom_core, ef, chain, phi, external_report, report>>
    /\ UNCHANGED arcvars

ReturnCoilChain ==
    /\ pc = "coil_loop"
    /\ loop.i = Len(Generations(bloom_core))
    /\ chain' = ChainResult(loop)
    /\ pc' = "verify_phi"
    /\ UNCHANGED <<data, bloom_core, ef, loop, phi, external_report, report>>
    /\ UNCHANGED arcvars

VerifyPhi ==
    /\ pc = "verify_phi"
    /\ phi' = verify_phi(bloom_core)
    /\ pc' = IF phi'.raised THEN "raised" ELSE "verify_external_fingerprints"
    /\ UNCHANGED <<data, bloom_core, ef, loop, chain, external_report, report>>
    /\ UNCHANGED arcvars

VerifyExternalFingerprints ==
    /\ pc = "verify_external_fingerprints"
    /\ external_report' = verify_external_fingerprints(data)
    /\ pc' = IF external_report'.raised THEN "raised" ELSE "build_report"
    /\ UNCHANGED <<data, bloom_core, ef, loop, chain, phi, report>>
    /\ UNCHANGED arcvars

\* the return statement; stored_ef[:32] raises on a non-string stored value
ReturnReport ==
    /\ pc = "build_report"
    /\ IF ef.stored.t = "str"
       THEN report' = BuildReport(bloom_core, ef, chain, phi, external_report) /\ pc' = "done"
       ELSE pc' = "raised" /\ UNCHANGED report
    /\ UNCHANGED <<data, bloom_core, ef, loop, chain, phi, external_report>>
    /\ UNCHANGED arcvars

\* verify_with_arc after verify_envelope has returned:
\* bloom_core = data.get("serpent_bloom_core", {}); seeds = extract_fingerprint_seeds(bloom_core)
ArcExtractSeeds ==
    /\ pc = "done"
    /\ arc' = [arc EXCEPT !.seeds = extract_fingerprint_seeds(GetCore(data))]
    /\ pc' = "integrity_trajectory"
    /\ UNCHANGED <<data, bloom_core, ef, loop, chain, phi, external_report, report>>
    /\ UNCHANGED <<seedrun, engine, histogram>>

\* trajectory = integrity_trajectory(bloom_core, n_steps=n_steps, blend_mode=blend_mode)
ArcIntegrityTrajectory ==
    /\ pc = "integrity_trajectory"
    /\ \E blend_mode \in BlendModes :
          arc' = [arc EXCEPT !.blend_mode = blend_mode,
                             !.seed = integrity_trajectory_seed(GetCore(data), blend_mode)]
    /\ pc' = "guardian_arc"
    /\ UNCHANGED <<data, bloom_core, ef, loop, chain, phi, external_report, report>>
    /\ UNCHANGED <<seedrun, engine, histogram>>

\* verification["guardian_arc"] = {...}
ArcAttachReport ==
    /\ pc = "guardian_arc"
    /\ arc' = [arc EXCEPT !.guardian_arc =
                 [has |-> TRUE,
                  trajectory_steps |-> SlicedLen(N_STEPS, BURN_IN),
                  seeds_extracted |-> Len(arc.seeds),
                  blend_mode |-> arc.blend_mode,
                  seed_used |-> seed_used(arc.seeds, arc.blend_mode)]]
    /\ pc' = "arc_done"
    /\ UNCHANGED <<data, bloom_core, ef, loop, chain, phi, external_report, report>>
    /\ UNCHANGED <<seedrun, engine, histogram>>

Next ==
    \/ EnterVerifyEnvelope
    \/ VerifyEternalFingerprint
    \/ EnterCoilChain
    \/ CoilIteration
    \/ ReturnCoilChain
    \/ VerifyPhi
    \/ VerifyExternalFingerprints
    \/ ReturnReport
    \/ ArcExtractSeeds
    \/ ArcIntegrityTrajectory
    \/ ArcAttachReport

Spec == Init /\ [][Next]_vars

\* ------------------------------------------------------------------ the seed functions alone
MaxBlocks == 4
MaxSeeds == 3

\* runs of four characters: hex digits of both cases, and one run with a
\* character that is no hex digit
Blocks ==
    {<<"0", "0", "0", "0">>, <<"f", "f", "f", "f">>, <<"0", "0", "2", "0">>,
     <<"0", "0", "1", "F">>, <<"z", "0", "0", "0">>}

RECURSIVE BlockStrings(_)
BlockStrings(n) ==
    IF n = 0 THEN {<<>>}
    ELSE {b \o t : b \in Blocks, t \in BlockStrings(n - 1)}

\* strings of 0, 4, .. 4 * MaxBlocks characters, the longest ones also cut
\* by one character and extended by one or two
FingerprintStrings ==
    UNION {BlockStrings(n) : n \in 0..MaxBlocks}
    \cup {SubSeq(t, 1, Len(t) - 1) : t \in BlockStrings(MaxBlocks)}
    \cup {t \o x : t \in BlockStrings(MaxBlocks), x \in {<<"0">>, <<"z", "z">>}}

FingerprintArguments == {Absent} \cup {Str(t) : t \in FingerprintStrings}

SeedChoices ==
    {Seed(0, 0), Seed(2^(HiBits - 1), 0), Seed(2^HiBits - 1, 2^LoBits - 1), DefaultSeed}

RECURSIVE SeedLists(_)
SeedLists(n) ==
    IF n = 0 THEN {<<>>}
    ELSE {<<x>> \o t : x \in SeedChoices, t \in SeedLists(n - 1)}

IdleDocument == generate_sample_envelope(0, <<"T">>, TRUE_PHI)

InitSeed ==
    /\ data = IdleDocument
    /\ pc = "idle"
    /\ bloom_core = EmptyCore
    /\ ef = [ok |-> FALSE, stored |-> Absent, recomputed |-> <<>>]
    /\ loop = LoopInit(EmptyCore)
    /\ chain = [raised |-> FALSE, ok |-> FALSE, bad_coils |-> <<>>, details |-> <<>>]
    /\ phi = [raised |-> FALSE, ok |-> FALSE, observed |-> 0, delta |-> 0]
    /\ external_report = NoReport.external_fingerprints
    /\ report = NoReport
    /\ arc = ArcIdle
    /\ engine = EngineIdle
    /\ histogram = DensityIdle
    /\ \/ \E f \in FingerprintArguments :
             seedrun = [SeedIdle EXCEPT !.op = "fingerprint_to_seed", !.fingerprint = f, !.at = "call"]
       \/ \E n \in 0..MaxSeeds : \E l \in SeedLists(n) :
             seedrun = [SeedIdle EXCEPT !.op = "blend_seeds", !.seeds = l, !.at = "call"]

FingerprintToSeed ==
    /\ seedrun.op = "fingerprint_to_seed"
    /\ seedrun.at = "call"
    /\ LET r == fingerprint_to_seed(seedrun.fingerprint)
       IN  seedrun' = [seedrun EXCEPT !.at = IF r.raised THEN "raised" ELSE "returned",
                                      !.result = r.seed]
    /\ UNCHANGED <<data, pc, bloom_core, ef, loop, chain, phi, external_report, report>>
    /\ UNCHANGED <<arc, engine, histogram>>

BlendSeeds ==
    /\ seedrun.op = "blend_seeds"
    /\ seedrun.at = "call"
    /\ seedrun' = [seedrun EXCEPT !.at = "returned", !.result = blend_seeds(seedrun.seeds)]
    /\ UNCHANGED <<data, pc, bloom_core, ef, loop, chain, phi, external_report, report>>
    /\ UNCHANGED <<arc, engine, histogram>>

NextSeed ==
    \/ FingerprintToSeed
    \/ BlendSeeds

SpecSeed == InitSeed /\ [][NextSeed]_vars

\* ------------------------------------------------------------------ the trajectory engine alone
MaxSteps == 8
MaxBurnIn == 3

\* seeds in billionths: 0, the default 0.123456789, values next to 1, above
\* 1, below 0 and just below 0
EngineSeeds == {0, 123456789, 999999000, 1500000000, -250000000, -1}

InitTrajectory ==
    /\ data = IdleDocument
    /\ pc = "idle"
    /\ bloom_core = EmptyCore
    /\ ef = [ok |-> FALSE, stored |-> Absent, recomputed |-> <<>>]
    /\ loop = LoopInit(EmptyCore)
    /\ chain = [raised |-> FALSE, ok |-> FALSE, bad_coils |-> <<>>, details |-> <<>>]
    /\ phi = [raised |-> FALSE, ok |-> FALSE, observed |-> 0, delta |-> 0]
    /\ external_report = NoReport.external_fingerprints
    /\ report = NoReport
    /\ arc = ArcIdle
    /\ seedrun = SeedIdle
    /\ histogram = DensityIdle
    /\ \E n \in 0..MaxSteps, b \in 0..MaxBurnIn, sd \in EngineSeeds :
          engine = [EngineIdle EXCEPT !.at = "call", !.n_steps = n, !.burn_in = b, !.seed = sd]

\* s = float(seed) % 1.0; z = 0; traj = np.zeros(n_steps)
EngineEnter ==
    /\ engine.at = "call"
    /\ engine' = [engine EXCEPT !.at = "loop", !.s = DriverInit(engine.seed),
                                 !.z = [re |-> 0, im |-> 0], !.i = 0, !.traj = <<>>]
    /\ UNCHANGED <<data, pc, bloom_core, ef, loop, chain, phi, external_report, report>>
    /\ UNCHANGED <<arc, seedrun, histogram>>

\* one iteration of the loop; traj holds the points written so far, and
\* CENTERS[k] raises IndexError for an index past the last center
EngineStep ==
    /\ engine.at = "loop"
    /\ engine.i < engine.n_steps
    /\ LET s == Advance(engine.s)
           k == searchsorted(CUTS, s)
       IN  IF k >= Len(CENTERS)
           THEN engine' = [engine EXCEPT !.s = s, !.k = k, !.at = "raised"]
           ELSE LET c == CENTERS[k + 1]
                    z == Contract(engine.z, c)
                IN  engine' = [engine EXCEPT !.s = s, !.k = k, !.z = z, !.i = engine.i + 1,
                                             !.traj = Append(engine.traj, z)]
    /\ UNCHANGED <<data, pc, bloom_core, ef, loop, chain, phi, external_report, report>>
    /\ UNCHANGED <<arc, seedrun, histogram>>

EngineReturn ==
    /\ engine.at = "loop"
    /\ engine.i = engine.n_steps
    /\ engine' = [engine EXCEPT !.at = "returned", !.result = Slice(engine.traj, engine.burn_in)]
    /\ UNCHANGED <<data, pc, bloom_core, ef, loop, chain, phi, external_report, report>>
    /\ UNCHANGED <<arc, seedrun, histogram>>

NextTrajectory ==
    \/ EngineEnter
    \/ EngineStep
    \/ EngineReturn

SpecTrajectory == InitTrajectory /\ [][NextTrajectory]_vars

\* ------------------------------------------------------------------ the density estimate alone
MaxPoints == 3
MaxBins == 3

\* the origin, three of the centers, and a point level with one of them
PointChoices ==
    {[re |-> 0, im |-> 0], [re |-> 0, im |-> 3500], [re |-> -3329, im |-> 1082],
     [re |-> 2057, im |-> -2832], [re |-> 2057, im |-> 1082]}

RECURSIVE PointLists(_)
PointLists(n) ==
    IF n = 0 THEN {<<>>}
    ELSE {<<q>> \o t : q \in PointChoices, t \in PointLists(n - 1)}

InitDensity ==
    /\ data = IdleDocument
    /\ pc = "idle"
    /\ bloom_core = EmptyCore
    /\ ef = [ok |-> FALSE, stored |-> Absent, recomputed |-> <<>>]
    /\ loop = LoopInit(EmptyCore)
    /\ chain = [raised |-> FALSE, ok |-> FALSE, bad_coils |-> <<>>, details |-> <<>>]
    /\ phi = [raised |-> FALSE, ok |-> FALSE, observed |-> 0, delta |-> 0]
    /\ external_report = NoReport.external_fingerprints
    /\ report = NoReport
    /\ arc = ArcIdle
    /\ seedrun = SeedIdle
    /\ engine = EngineIdle
    /\ \E n \in 1..MaxPoints, b \in 1..MaxBins : \E z \in PointLists(n) :
          histogram = [DensityIdle EXCEPT !.at = "call", !.z = z, !.bins = b]

\* if extent is None: ... extent = (xmin, xmax, ymin, ymax)
DensityExtent ==
    /\ histogram.at = "call"
    /\ histogram' = [histogram EXCEPT !.at = "histogram2d", !.extent = DataExtent(histogram.z)]
    /\ UNCHANGED <<data, pc, bloom_core, ef, loop, chain, phi, external_report, report>>
    /\ UNCHANGED <<arc, seedrun, engine>>

\* H, x_edges, y_edges = np.histogram2d(...); return H.T, x_edges, y_edges
DensityReturn ==
    /\ histogram.at = "histogram2d"
    /\ histogram' = [histogram EXCEPT
                       !.at = "returned",
                       !.grid = Transposed(Histogram2d(histogram.z, histogram.bins, histogram.extent))]
    /\ UNCHANGED <<data, pc, bloom_core, ef, loop, chain, phi, external_report, report>>
    /\ UNCHANGED <<arc, seedrun, engine>>

NextDensity ==
    \/ DensityExtent
    \/ DensityReturn

SpecDensity == InitDensity /\ [][NextDensity]_vars

\* ------------------------------------------------------------------ properties
Range(seq) == {seq[j] : j \in 1..Len(seq)}

\* verify_coil_chain has just returned
ChainReturned == pc = "verify_phi"

\* the entries of the core under verification, and their count
Gens == Generations(bloom_core)
N == Len(Gens)

\* the chain of n coils built by the recurrence from genesis
Recurrence(n, genesis) == ChainFingerprints(n, genesis)

\* gens is a chain built by the recurrence: every entry is a record whose
\* index (when it has one) is its position and whose fingerprint is the
\* recurrence value
ValidChain(gens, genesis) ==
    \A j \in 1..Len(gens) :
        /\ gens[j].obj
        /\ gens[j].coil \in {Absent, Num(j - 1)}
        /\ gens[j].fingerprint = Str(Recurrence(Len(gens), genesis)[j])

\* gens is a valid chain in which the fingerprint of position k (0-based) was
\* replaced by another value of type t
ReplacedAt(gens, genesis, k, types) ==
    /\ k + 1 \in 1..Len(gens)
    /\ gens[k + 1].obj
    /\ gens[k + 1].fingerprint.t \in types
    /\ StoredFp(gens[k + 1]).s # Recurrence(Len(gens), genesis)[k + 1]
    /\ ValidChain([gens EXCEPT ![k + 1].fingerprint = Str(Recurrence(Len(gens), genesis)[k + 1])],
                  genesis)

\* verify_envelope has returned its report (verify_with_arc may have gone on)
EnvelopeReturned == pc \in {"done", "integrity_trajectory", "guardian_arc", "arc_done"}

\* C1: verify_envelope reports PASS exactly when the digest check, the chain
\* check and the ratio check all returned ok = TRUE, and FAIL in every other
\* case in which it returns a report.
C1_VerdictIffAllChecks ==
    /\ report.verification_result = "PASS" <=> (EnvelopeReturned /\ ef.ok /\ chain.ok /\ phi.ok)
    /\ report.verification_result = "FAIL" <=> (EnvelopeReturned /\ ~(ef.ok /\ chain.ok /\ phi.ok))

C1_Witness ==
    pc = "done" /\ report.verification_result = "PASS" /\ N >= 2

\* C2: in a valid chain of length N >= 2 whose coil k carries a different
\* well-formed fingerprint, verify_coil_chain returns ok = FALSE with k in
\* bad_coils and no position below k in bad_coils.
C2_TamperDetectedAtK ==
    \A k \in 0..(N - 1) :
        (N >= 2 /\ ReplacedAt(Gens, Genesis(bloom_core), k, {"str"})
                /\ is_valid_sha3_hex(Gens[k + 1].fingerprint))
        => /\ ~loop.raised
           /\ ChainReturned => /\ ~chain.ok
                               /\ k \in Range(chain.bad_coils)
                               /\ \A j \in 0..(k - 1) : j \notin Range(chain.bad_coils)

C2_Witness ==
    /\ ChainReturned
    /\ N >= 4
    /\ ReplacedAt(Gens, Genesis(bloom_core), 3, {"str"})
    /\ is_valid_sha3_hex(Gens[4].fingerprint)
    /\ 3 \in Range(chain.bad_coils)

\* C3 as stated: a corrupted fingerprint at coil k makes every later position
\* k+1..N-1 bad.
C3_PoisonsAllDescendants ==
    \A k \in 0..(N - 1) :
        (ChainReturned /\ ReplacedAt(Gens, Genesis(bloom_core), k, {"str", "absent"}))
        => \A j \in (k + 1)..(N - 1) : j \in Range(chain.bad_coils)

\* C3 amended: a corrupted fingerprint (another string, well formed or not,
\* or none) at coil k of an otherwise valid chain makes exactly the positions
\* k, k+1 and k+2 that exist bad: the expected value of a position is computed
\* from the stored fingerprints of its two predecessors, so positions from
\* k+3 on verify again.
C3_PoisonsTwoDescendants ==
    \A k \in 0..(N - 1) :
        (ChainReturned /\ ReplacedAt(Gens, Genesis(bloom_core), k, {"str", "absent"}))
        => Range(chain.bad_coils) = {j \in k..(k + 2) : j <= N - 1}

C3_Witness ==
    /\ ChainReturned
    /\ N >= 4
    /\ ReplacedAt(Gens, Genesis(bloom_core), 0, {"str", "absent"})
    /\ Range(chain.bad_coils) = {0, 1, 2}

\* the stored fingerprint string of position j (0-based) of the core under
\* verification
StoredAt(j) ==
    IF Gens[j + 1].fingerprint.t = "absent" THEN <<>> ELSE Gens[j + 1].fingerprint.s

\* the hash input for position i by position, with the given salt
PositionalSeed(i, salt) ==
    (IF i <= 1 THEN <<"0">> ELSE StoredAt(i - 2))
    \o (IF i = 0 THEN <<"0">> ELSE StoredAt(i - 1))
    \o (IF bloom_core.genesis.t = "absent" THEN GENESIS_TIMESTAMP ELSE bloom_core.genesis.s)
    \o salt

\* the loop has just compared position loop.i - 1 with an expected value
ExpectedComputed ==
    /\ pc = "coil_loop"
    /\ loop.i >= 1
    /\ Gens[loop.i].fingerprint.t = "str"
    /\ IsHex128(Gens[loop.i].fingerprint.s)

\* C4 as stated: the expected fingerprint of position i is the hash of the
\* positional parents, the genesis and the resonance_hz stored in the core
\* under verification.
C4_ExpectedUsesCoreResonance ==
    (ExpectedComputed /\ bloom_core.resonance_hz.t = "num")
    => loop.expected_fp =
           <<"h(">> \o PositionalSeed(loop.i - 1, <<ToString(bloom_core.resonance_hz.n)>>) \o <<")">>

\* C4 amended: the expected fingerprint of position i is the hash of the
\* positional parents ("0","0" at 0; "0", coil 0 at 1; coils i-2, i-1 from 2
\* on), the genesis stored in the core (the module default when it has none)
\* and the module constant RESONANCE_HZ = 963; the resonance_hz stored in the
\* core does not enter it.
C4_ExpectedUsesFixedResonance ==
    ExpectedComputed
    => loop.expected_fp = <<"h(">> \o PositionalSeed(loop.i - 1, <<"963">>) \o <<")">>

C4_Witness ==
    /\ ExpectedComputed
    /\ loop.i >= 3
    /\ bloom_core.resonance_hz = Num(432)
    /\ loop.bad_coils = <<>>
    /\ loop.expected_fp = Gens[loop.i].fingerprint.s

\* C5: verify_eternal_fingerprint returns ok = TRUE exactly when the stored
\* digest is the hash of the canonical serialization of the other fields of
\* the core; the recomputed value is the same for every value of the digest
\* field, so a core sealed with that hash verifies.
C5_DigestExcludesItself ==
    pc = "verify_coil_chain"
    => LET others == [bloom_core EXCEPT !.eternal_fingerprint = Absent]
           h == <<"h(">> \o JsonCore(others) \o <<")">>
       IN  /\ ef.recomputed = h
           /\ ef.ok <=> bloom_core.eternal_fingerprint = Str(h)
           /\ \A v \in DigestChoices \cup {Str(h)} :
                  LET r == verify_eternal_fingerprint([bloom_core EXCEPT !.eternal_fingerprint = v])
                  IN  r.recomputed = ef.recomputed /\ (r.ok <=> v = Str(h))

C5_Witness ==
    pc = "verify_coil_chain" /\ ef.ok /\ N >= 2 /\ bloom_core.eternal_fingerprint.t = "str"

\* the core with the parents field of the entries in ks replaced by p
WithParents(core, ks, p) ==
    LET gens == core.generations.list
    IN  [core EXCEPT !.generations.list =
            [j \in 1..Len(gens) |-> IF j \in ks THEN [gens[j] EXCEPT !.parents = p] ELSE gens[j]]]

ParentsVariants ==
    ParentsChoices \cup {[has |-> TRUE, a |-> <<"0">>, b |-> <<"0">>]}

\* C6: cores that differ only in the parents fields of their coil records get
\* the same verify_coil_chain result (ok, bad_coils, details), and the same
\* outcome when the walk raises.
C6_ParentsNeverTrusted ==
    \A p \in ParentsVariants : \A ks \in {1..N} \cup {{k} : k \in 1..N} :
        LET other == verify_coil_chain(WithParents(bloom_core, ks, p))
        IN  /\ ChainReturned => other = chain
            /\ (pc = "raised" /\ loop.raised) => other.raised

C6_Witness ==
    /\ ChainReturned
    /\ chain.ok
    /\ N >= 3
    /\ Gens[3].parents = [has |-> TRUE, a |-> <<"0">>, b |-> <<"Fa">>]

\* d is an envelope built by the recurrence: coil records with index =
\* position and recurrence fingerprints, a digest computed over the other
\* fields, the ratio phi, and a list of external fingerprint records
RecurrenceEnvelope(d) ==
    LET core == d.serpent_bloom_core
        gens == core.generations.list
    IN  /\ d.obj
        /\ core.kind = "obj"
        /\ core.generations.has
        /\ core.genesis.t = "str"
        /\ \A j \in 1..Len(gens) :
               /\ gens[j].obj
               /\ gens[j].coil = Num(j - 1)
               /\ gens[j].fingerprint = Str(Recurrence(Len(gens), core.genesis.s)[j])
        /\ core.phi_ratio_observed = Num(TRUE_PHI)
        /\ core.eternal_fingerprint =
               Str(<<"h(">> \o JsonCore([core EXCEPT !.eternal_fingerprint = Absent]) \o <<")">>)
        /\ \A j \in 1..Len(d.external_fingerprints.list) : d.external_fingerprints.list[j].obj

\* C7: an envelope of N >= 0 coils built by the recurrence, with a correctly
\* computed digest and the ratio phi, is reported as PASS with bad_coils empty.
C7_RecurrenceEnvelopePasses ==
    RecurrenceEnvelope(data)
    => /\ pc # "raised"
       /\ pc = "done" => /\ report.verification_result = "PASS"
                         /\ report.coil_chain.bad_coils = <<>>

C7_Witness ==
    /\ RecurrenceEnvelope(data)
    /\ pc = "done"
    /\ report.coil_chain.coils_checked = 3
    /\ report.verification_result = "PASS"

\* C8: verify_envelope never raises: every JSON document, also one with
\* missing or wrongly typed fields, gets a report.
C8_NoExceptionPropagates ==
    pc # "raised"

\* the envelope is an object that lacks one of the expected keys
MissingKey(d) ==
    /\ d.obj
    /\ \/ d.serpent_bloom_core.kind = "absent"
       \/ ~d.external_fingerprints.has
       \/ /\ d.serpent_bloom_core.kind = "obj"
          /\ \/ ~d.serpent_bloom_core.generations.has
             \/ d.serpent_bloom_core.eternal_fingerprint.t = "absent"
             \/ d.serpent_bloom_core.phi_ratio_observed.t = "absent"

\* the envelope lacks its core, or the core its digest or its ratio
MissingCheckedKey(d) ==
    /\ d.obj
    /\ \/ d.serpent_bloom_core.kind = "absent"
       \/ /\ d.serpent_bloom_core.kind = "obj"
          /\ \/ d.serpent_bloom_core.eternal_fingerprint.t = "absent"
             \/ d.serpent_bloom_core.phi_ratio_observed.t = "absent"

\* every key that is present holds a value of the type of the data model
WellTyped(d) ==
    LET core == GetCore(d)
    IN  /\ d.obj
        /\ core.kind = "obj"
        /\ core.phi_ratio_observed.t # "str"
        /\ core.eternal_fingerprint.t # "num"
        /\ \A j \in 1..Len(Generations(core)) :
               Generations(core)[j].obj /\ Generations(core)[j].fingerprint.t # "num"
        /\ d.external_fingerprints.has
           => \A j \in 1..Len(d.external_fingerprints.list) : d.external_fingerprints.list[j].obj

HasIndexMismatch(details, i, idx) ==
    \E j \in 1..Len(details) :
        /\ details[j].error = "index_mismatch"
        /\ details[j].coil = idx
        /\ details[j].expected_index = i
        /\ details[j].actual_index = idx

\* C10: for every position i whose stored index differs from i, the walk
\* records an index_mismatch diagnostic when it visits i, whatever the
\* fingerprint there, and verify_coil_chain returns ok = FALSE with that
\* diagnostic in details.
C10_IndexMismatchFlagged ==
    \A i \in 0..(N - 1) :
        (Gens[i + 1].obj /\ Gens[i + 1].coil.t = "num" /\ Gens[i + 1].coil.n # i)
        => /\ ((pc = "coil_loop" /\ loop.i > i) \/ (loop.raised /\ loop.i = i))
              => HasIndexMismatch(loop.details, i, Gens[i + 1].coil.n)
           /\ ChainReturned
              => ~chain.ok /\ HasIndexMismatch(chain.details, i, Gens[i + 1].coil.n)

C10_Witness ==
    /\ ChainReturned
    /\ N >= 2
    /\ Gens[2].coil = Num(2)
    /\ Gens[2].fingerprint = Str(Recurrence(N, Genesis(bloom_core))[2])
    /\ HasIndexMismatch(chain.details, 1, 2)
    /\ chain.bad_coils = <<2>>

\* verify_phi has just returned
PhiReturned == pc = "verify_external_fingerprints"

\* C11: verify_phi returns ok = TRUE exactly when the distance of the observed
\* ratio from phi is strictly below the tolerance (one unit): phi itself gives
\* ok with delta 0; a distance of exactly the tolerance, phi + 1e-6 (1000
\* units) and the default 0.0 of a missing field give ok = FALSE.
C11_RatioStrictlyWithinTolerance ==
    PhiReturned
    => LET stored == bloom_core.phi_ratio_observed
           observed == IF stored.t = "absent" THEN 0 ELSE stored.n
           d == observed - 1618033988
       IN  /\ phi.ok <=> (d > -1 /\ d < 1)
           /\ phi.delta = (IF d < 0 THEN -d ELSE d)
           /\ stored = Num(1618033988) => (phi.ok /\ phi.delta = 0)
           /\ stored = Num(1618033988 + 1000) => ~phi.ok
           /\ stored.t = "absent" => ~phi.ok

C11_Witness ==
    /\ PhiReturned
    /\ bloom_core.phi_ratio_observed = Num(1618033988 + 1)
    /\ phi.delta = 1
    /\ ~phi.ok

ExternalVariants ==
    ExternalChoices
    \cup {[has |-> TRUE,
           list |-> << [obj |-> TRUE, source |-> Str(<<"a">>), algorithm |-> Str(<<"SHA3-512">>)],
                       [obj |-> TRUE, source |-> Absent, algorithm |-> Num(1)] >>]}

\* C12: every report carries external_fingerprints.verified = null, and the
\* documents that differ from the verified one only in external_fingerprints
\* get the same verification_result whenever they get a report.
C12_ExternalInformationalOnly ==
    pc = "done"
    => /\ report.external_fingerprints.verified = "null"
       /\ \A x \in ExternalVariants :
              LET other == verify_envelope([data EXCEPT !.external_fingerprints = x])
              IN  ~other.raised
                  => /\ other.report.verification_result = report.verification_result
                     /\ other.report.external_fingerprints.verified = "null"

C12_Witness ==
    /\ pc = "done"
    /\ report.external_fingerprints.count = 1
    /\ report.external_fingerprints.verified = "null"
    /\ report.verification_result = "PASS"

\* C13: for a core whose generations list is empty or absent,
\* verify_coil_chain returns ok = TRUE with no bad coils and no details.
C13_EmptyChainPasses ==
    (ChainReturned /\ N = 0)
    => chain = [raised |-> FALSE, ok |-> TRUE, bad_coils |-> <<>>, details |-> <<>>]

C13_Witness ==
    ChainReturned /\ ~bloom_core.generations.has /\ bloom_core.genesis.t = "str" /\ chain.ok

\* C14: verification never mutates its input: no step of verify_envelope or
\* of verify_with_arc changes the input document, so after the call the core
\* still holds its digest and every field and coil record has its old value.
C14_InputNeverMutated == [][data' = data]_vars

C14_Witness ==
    /\ pc = "arc_done"
    /\ data.serpent_bloom_core.kind = "obj"
    /\ data.serpent_bloom_core.eternal_fingerprint.t = "str"
    /\ N >= 1

\* verify_with_arc has extracted its seeds
SeedsExtracted == pc \in {"integrity_trajectory", "guardian_arc", "arc_done"}

WellFormedAt(j) == Gens[j].fingerprint.t = "str" /\ IsHex128(Gens[j].fingerprint.s)

\* the number of well-formed fingerprints among the first j entries
Rank(j) == Cardinality({m \in 1..j : WellFormedAt(m)})

\* C15: extract_fingerprint_seeds returns exactly one seed per coil whose
\* fingerprint is a well-formed 128-hex string, in chain order, and nothing
\* for a malformed entry; seeds_extracted is the number of well-formed
\* fingerprints in generations.
C15_OneSeedPerWellFormed ==
    SeedsExtracted =>
        /\ Len(arc.seeds) = Rank(N)
        /\ \A j \in 1..N :
              WellFormedAt(j) =>
                  arc.seeds[Rank(j)] = fingerprint_to_seed(Str(Chars(Gens[j].fingerprint.s))).seed
        /\ (pc = "arc_done" => arc.guardian_arc.seeds_extracted = Rank(N))

C15_Witness ==
    /\ pc = "arc_done"
    /\ \E j, k, l \in 1..N :
          /\ j < k /\ k < l
          /\ WellFormedAt(j) /\ ~WellFormedAt(k) /\ WellFormedAt(l)
          /\ arc.seeds[Rank(j)] # arc.seeds[Rank(l)]

\* C16: the reported seed_used equals the seed integrity_trajectory passed
\* to the trajectory engine, for every blend_mode and every list of seeds.
C16_SeedUsedIsSeedPassed ==
    pc = "arc_done" => arc.guardian_arc.seed_used = arc.seed

\* the case where the two differ: an unrecognised blend_mode with a seed to take
C16_UnknownModeReportsFirstSeed ==
    (pc = "arc_done" /\ arc.blend_mode \notin {"composite", "first"} /\ arc.seeds # <<>>)
        => (arc.seed = DefaultSeed /\ arc.guardian_arc.seed_used = arc.seeds[1])

\* the digits cs[from..to] read as one base-16 number
DigitsValue(cs, from, to) ==
    SumSeq([j \in 1..(to - from + 1) |-> HexValue(cs[from + j - 1]) * 16^(to - from + 1 - j)])

\* C17: fingerprint_to_seed returns a value in [0,1): for a digest of at
\* least 16 hex characters, (the first 16 characters as an unsigned integer,
\* mod 2^53) / 2^53, numerator in 0..2^53-1; for an absent, empty or shorter
\* digest the default seed 0.123456789.  (Bits 0..27 of the integer are the
\* characters 10..16, bits 28..51 the characters 4..9, bit 52 the lowest bit
\* of character 3.)
C17_SeedFromFirst16Hex ==
    (seedrun.op = "fingerprint_to_seed" /\ seedrun.at # "call") =>
        LET fp == seedrun.fingerprint
            cs == fp.s
        IN  IF fp.t = "absent" \/ Len(cs) < 16
            THEN seedrun.at = "returned" /\ seedrun.result = Seed(4142522, 115813483)
            ELSE (\A j \in 1..16 : IsHexChar(cs[j])) =>
                    /\ seedrun.at = "returned"
                    /\ seedrun.result.lo = DigitsValue(cs, 10, 16)
                    /\ seedrun.result.hi = (HexValue(cs[3]) % 2) * 2^24 + DigitsValue(cs, 4, 9)
                    /\ seedrun.result.hi \in 0..(2^25 - 1)
                    /\ seedrun.result.lo \in 0..(2^28 - 1)

\* a longer digest whose bit 53 is set and is dropped by the reduction
C17_Witness ==
    /\ seedrun.op = "fingerprint_to_seed"
    /\ seedrun.at = "returned"
    /\ Len(seedrun.fingerprint.s) > 16
    /\ seedrun.fingerprint.s[3] = "2"
    /\ seedrun.result.hi < 2^24

\* C18: blend_seeds returns the default 0.123456789 for an empty list, the
\* seed itself for a one-element list, and for two or more seeds in [0,1)
\* the phi^(-i)-weighted, weight-normalised sum reduced mod 1, which lies
\* in [0,1).
C18_BlendInUnitInterval ==
    (seedrun.op = "blend_seeds" /\ seedrun.at = "returned") =>
        LET seeds == seedrun.seeds
            n == Len(seeds)
            w == Weights(n)
            total == SumSeq([i \in 1..n |-> w[i] * Leading(seeds[i])])
        IN  /\ n = 0 => seedrun.result = Seed(4142522, 115813483)
            /\ n = 1 => seedrun.result = seeds[1]
            /\ n >= 2 =>
                  /\ seedrun.result = Seed((total % 2^23) * 4, 0)
                  /\ seedrun.result.hi \in 0..(2^25 - 1)

\* a blend whose weighted sum reaches 1 before the reduction
C18_Witness ==
    /\ seedrun.op = "blend_seeds"
    /\ seedrun.at = "returned"
    /\ Len(seedrun.seeds) >= 2
    /\ WeightedSum(seedrun.seeds) >= 2^23

EngineReturned == engine.at = "returned"

\* C19 as stated: guardian_arc_trajectory returns exactly n_steps - burn_in
\* points for every n_steps >= 0 and burn_in >= 0.
C19_ExactlyStepsMinusBurnIn ==
    EngineReturned => Len(engine.result) = engine.n_steps - engine.burn_in

\* C19: the returned sequence is the points recorded at the step indices
\* burn_in..n_steps-1 in step order: n_steps - burn_in points when
\* burn_in <= n_steps, and no point at all when burn_in > n_steps.
C19_PointsAfterBurnIn ==
    EngineReturned =>
        LET n == engine.n_steps
            b == engine.burn_in
            count == IF b <= n THEN n - b ELSE 0
        IN  /\ Len(engine.traj) = n
            /\ Len(engine.result) = count
            /\ \A j \in 1..count : engine.result[j] = engine.traj[b + j]

C19_Witness ==
    /\ EngineReturned
    /\ engine.burn_in >= 1
    /\ engine.n_steps >= engine.burn_in + 2
    /\ engine.result[1] # engine.traj[1]

\* |lambda_phi| in ten-thousandths, rounded up
LambdaModulus == 5391

\* R (1 + |lambda|) / (1 - |lambda|), in thousandths: if |z| is below it
\* then so is |lambda (z - c) + c| for every center c with |c| <= R
TrajectoryBound == (3500 * (10000 + LambdaModulus)) \div (10000 - LambdaModulus) + 1

InBound(z) == z.re * z.re + z.im * z.im <= TrajectoryBound * TrajectoryBound

\* C20: after each step of z <- lambda (z - c) + c the point z lies within
\* the fixed distance R (1 + |lambda|) / (1 - |lambda|) of the origin, for
\* every seed and every number of steps.
C20_TrajectoryBounded ==
    /\ InBound(engine.z)
    /\ \A j \in 1..Len(engine.traj) : InBound(engine.traj[j])
    /\ \A j \in 1..Len(engine.result) : InBound(engine.result[j])

\* a run that has visited a ring center and moved away from the origin
C20_Witness ==
    /\ engine.at = "loop"
    /\ engine.i >= 5
    /\ engine.z.re * engine.z.re + engine.z.im * engine.z.im >= 3000 * 3000

\* the loop of verify_coil_chain is about to visit a position whose stored
\* fingerprint is no well-formed 128-hex string
AtMalformed ==
    /\ pc = "coil_loop"
    /\ loop.i < N
    /\ Gens[loop.i + 1].obj
    /\ ~(Gens[loop.i + 1].fingerprint.t = "str" /\ IsHex128(Gens[loop.i + 1].fingerprint.s))

\* the step on such a position: one invalid_fingerprint_format diagnostic is
\* appended after the index diagnostic (if any), the chain is failed, no
\* expected fingerprint is computed, the stored value joins the values used
\* for parent lookups, and the loop goes on with the next position
MalformedStep ==
    LET i == loop.i
        gen == Gens[i + 1]
        idx == IF gen.coil.t = "absent" THEN i ELSE gen.coil.n
        value == IF gen.fingerprint.t = "absent" THEN <<>> ELSE gen.fingerprint.s
        last == loop'.details[Len(loop'.details)]
    IN  /\ pc' = "coil_loop"
        /\ loop'.i = i + 1
        /\ Len(loop'.details) = Len(loop.details) + (IF idx # i THEN 2 ELSE 1)
        /\ last.error = "invalid_fingerprint_format"
        /\ last.coil = idx
        /\ last.actual_length = Len(value)
        /\ \A j \in (Len(loop.details) + 1)..Len(loop'.details) :
              loop'.details[j].error # "fingerprint_mismatch"
        /\ loop'.bad_coils # <<>>
        /\ loop'.bad_coils[Len(loop'.bad_coils)] = idx
        /\ loop'.expected_fp = loop.expected_fp
        /\ loop'.fingerprints = Append(loop.fingerprints, value)

\* C21: for a position whose fingerprint is not a well-formed 128-hex
\* string, verify_coil_chain records invalid_fingerprint_format and fails
\* the chain, computes and compares no expected fingerprint for it, goes on
\* to the later positions and uses the stored value in their parent lookups.
C21_MalformedRecordedAndSkipped == [][AtMalformed => MalformedStep]_vars

\* the same for the malformed values that are strings, or are missing
C21_MalformedStringRecorded ==
    [][(AtMalformed /\ Gens[loop.i + 1].fingerprint.t # "num") => MalformedStep]_vars

\* the label of position i: its coil field, or i when it has none
LabelAt(i) == IF Gens[i + 1].coil.t = "absent" THEN i ELSE Gens[i + 1].coil.n

\* the entry at position i fails the index, the format or the fingerprint check
FailedAt(i) ==
    \/ LabelAt(i) # i
    \/ ~(Gens[i + 1].fingerprint.t = "str" /\ IsHex128(Gens[i + 1].fingerprint.s))
    \/ Gens[i + 1].fingerprint.s # <<"h(">> \o PositionalSeed(i, <<"963">>) \o <<")">>

\* C22: every value in bad_coils is the position in generations of an entry
\* that failed a check; a position whose own entry passed the index, format
\* and fingerprint checks is never listed, whatever labels other entries carry.
C22_BadCoilsArePositions ==
    ChainReturned =>
        \A j \in 1..Len(chain.bad_coils) :
            /\ chain.bad_coils[j] \in 0..(N - 1)
            /\ FailedAt(chain.bad_coils[j])

\* what the list does hold: the labels of the entries that failed, one per
\* failed check, in the order of the walk
C22_BadCoilsAreLabelsOfFailed ==
    ChainReturned =>
        /\ \A j \in 1..Len(chain.bad_coils) :
              \E i \in 0..(N - 1) : FailedAt(i) /\ LabelAt(i) = chain.bad_coils[j]
        /\ \A i \in 0..(N - 1) :
              FailedAt(i) => \E j \in 1..Len(chain.bad_coils) : chain.bad_coils[j] = LabelAt(i)

\* C23: at every step of guardian_arc_trajectory, for every seed, the driver
\* s advanced by s <- (s + phi) mod 1 lies in [0,1) and the center index
\* found by the search over the cumulative weights lies in 0..5, so the
\* center lookup never goes out of range.  (Before the first step s is
\* seed mod 1, which lies in [0,1].)
C23_DriverAndIndexInRange ==
    /\ engine.at # "raised"
    /\ engine.s \in 0..1000000
    /\ engine.i >= 1 => (engine.s \in 0..999999 /\ engine.k \in 0..5)

\* a run started just below a whole number that has reached the last center
C23_Witness ==
    /\ engine.at = "loop"
    /\ engine.seed = -1
    /\ engine.i >= 2
    /\ engine.k = 5

\* the 5% widened bounding interval of the values, in twentieths of a
\* thousandth, moved apart by 0.5 on each side when it is a single value
WidenedLow(vals) ==
    LET lo == Least(vals)
        hi == Greatest(vals)
    IN  IF lo = hi THEN 20 * lo - 10000 ELSE 20 * lo - (hi - lo)

WidenedHigh(vals) ==
    LET lo == Least(vals)
        hi == Greatest(vals)
    IN  IF lo = hi THEN 20 * hi + 10000 ELSE 20 * hi + (hi - lo)

\* v lies in the b-th of bins equal parts of the widened interval of vals
InBin(v, vals, b, bins) ==
    LET lo == WidenedLow(vals)
        hi == WidenedHigh(vals)
    IN  /\ (b - 1) * (hi - lo) <= (20 * v - lo) * bins
        /\ \/ (20 * v - lo) * bins < b * (hi - lo)
           \/ b = bins /\ 20 * v = hi

RECURSIVE SumCells(_)
SumCells(rows) == IF rows = <<>> THEN 0 ELSE SumSeq(rows[1]) + SumCells(Tail(rows))

\* C24: without an extent guardian_arc_density returns a bins x bins grid in
\* which cell [row][col] counts the points whose imaginary part is in y-bin
\* row and whose real part is in x-bin col; no point is clipped: the cells
\* sum to the number of points, for every non-empty point sequence.
C24_GridCountsEveryPoint ==
    histogram.at = "returned" =>
        LET z == histogram.z
            bins == histogram.bins
            xs == {z[n].re : n \in 1..Len(z)}
            ys == {z[n].im : n \in 1..Len(z)}
        IN  /\ Len(histogram.grid) = bins
            /\ \A row \in 1..bins :
                  /\ Len(histogram.grid[row]) = bins
                  /\ \A col \in 1..bins :
                        histogram.grid[row][col] =
                            Cardinality({n \in 1..Len(z) : /\ InBin(z[n].im, ys, row, bins)
                                                           /\ InBin(z[n].re, xs, col, bins)})
            /\ SumCells(histogram.grid) = Len(z)

\* a grid that differs from its transpose
C24_Witness ==
    /\ histogram.at = "returned"
    /\ histogram.bins >= 2
    /\ Len(histogram.z) >= 2
    /\ \E row, col \in 1..histogram.bins :
          histogram.grid[row][col] # histogram.grid[col][row]
====
